---- MODULE Spec2Model ----
(***************************************************************************)
(* Model of syncthing_gtk/uibuilder.py: the UIBuilder wrapper around       *)
(* Gtk.Builder that expands <IF>/<ELSE> tags, "if" attributes and          *)
(* <COPYOBJECT> tags and rewrites icon paths in a parsed glade document.   *)
(*                                                                         *)
(* Strings are sequences of one-character strings, so that lower(),        *)
(* strip(), split() and startswith() are computed as Python computes them. *)
(* The DOM is a table of nodes (a sequence indexed by node identity); a    *)
(* node keeps its index for its whole life, a clone gets fresh indices.    *)
(* Python iterates a live list by position: every "for child in            *)
(* node.childNodes" of the source is a loop over an index into the list as *)
(* it is at that moment, mutations included.                               *)
(***************************************************************************)
EXTENDS Integers, Sequences, FiniteSets, TLC

VARIABLES conditions, icon_paths, xml, src, pc, err, met

vars == <<conditions, icon_paths, xml, src, pc, err, met>>

-----------------------------------------------------------------------------
(* Bounds of the model *)

\* longest expression handed to condition_met by a direct call
MaxLen == 3
\* most children of the document element in an input document
MaxChildren == 2
\* most replace_icon_path registrations
MaxRemaps == 1
\* nested Python calls of one recursive pass before the interpreter raises
RecursionLimit == 4

-----------------------------------------------------------------------------
(* Python str *)

Upper == <<"A","B","C","D","E","F","G","H","I","J","K","L","M",
           "N","O","P","Q","R","S","T","U","V","W","X","Y","Z">>
Lowercase == <<"a","b","c","d","e","f","g","h","i","j","k","l","m",
           "n","o","p","q","r","s","t","u","v","w","x","y","z">>

LowerChar(c) ==
    IF \E i \in 1..Len(Upper) : Upper[i] = c
    THEN Lowercase[CHOOSE i \in 1..Len(Upper) : Upper[i] = c]
    ELSE c

\* str.lower()
lower(s) == [i \in 1..Len(s) |-> LowerChar(s[i])]

IsSpace(c) == c \in {" ", "\t", "\n"}

SetMin(S) == CHOOSE x \in S : \A y \in S : x <= y
SetMax(S) == CHOOSE x \in S : \A y \in S : x >= y

\* str.strip()
strip(s) ==
    LET keep == {i \in 1..Len(s) : ~IsSpace(s[i])}
    IN  IF keep = {} THEN <<>> ELSE SubSeq(s, SetMin(keep), SetMax(keep))

\* str.find(c) + 1 : position of the first c, 0 when absent
find(s, c) ==
    LET at == {i \in 1..Len(s) : s[i] = c}
    IN  IF at = {} THEN 0 ELSE SetMin(at)

\* c in s
contains(s, c) == find(s, c) # 0

\* s.split(c, 1) when c is in s
split1(s, c) ==
    LET p == find(s, c)
    IN  <<SubSeq(s, 1, p - 1), SubSeq(s, p + 1, Len(s))>>

\* s.startswith(prefix)
startswith(s, prefix) ==
    /\ Len(prefix) <= Len(s)
    /\ SubSeq(s, 1, Len(prefix)) = prefix

\* s.endswith(suffix)
endswith(s, suffix) ==
    /\ Len(suffix) <= Len(s)
    /\ SubSeq(s, Len(s) - Len(suffix) + 1, Len(s)) = suffix

\* every sequence over S of length at most n
SeqsUpTo(S, n) == UNION {[1..k -> S] : k \in 0..n}

-----------------------------------------------------------------------------
(* The instance: self.conditions, self.icon_paths *)

Self == [conditions |-> conditions, icon_paths |-> icon_paths]

RECURSIVE condition_met_unnegated(_, _)
\* condition_met with the "not" of the "!" branch left out
condition_met_unnegated(self, cond) ==
    IF contains(cond, "|")
    THEN \E k \in 1..2 : condition_met_unnegated(self, split1(cond, "|")[k])
    ELSE IF contains(cond, "&")
    THEN \A k \in 1..2 : condition_met_unnegated(self, split1(cond, "&")[k])
    ELSE IF startswith(strip(cond), <<"!">>)
    THEN condition_met_unnegated(self, Tail(strip(cond)))
    ELSE strip(cond) \in self.conditions

RECURSIVE condition_met(_, _)
\* UIBuilder.condition_met
condition_met(self, cond) ==
    IF contains(cond, "|")
    THEN \E k \in 1..2 : condition_met(self, split1(cond, "|")[k])
    ELSE IF contains(cond, "&")
    THEN \A k \in 1..2 : condition_met(self, split1(cond, "&")[k])
    ELSE IF startswith(strip(cond), <<"!">>)
    THEN ~condition_met(self, Tail(strip(cond)))
    ELSE strip(cond) \in self.conditions

\* the pair replace_icon_path appends
normalized_pair(prefix, replace_with) ==
    << IF endswith(prefix, <<"/">>) THEN prefix ELSE prefix \o <<"/">>,
       IF endswith(replace_with, <<"/">>) THEN replace_with ELSE replace_with \o <<"/">> >>

RECURSIVE replace_from(_, _, _)
replace_from(self, path, k) ==
    IF k > Len(self.icon_paths) THEN path
    ELSE IF startswith(path, self.icon_paths[k][1])
         THEN self.icon_paths[k][2]
                  \o SubSeq(path, Len(self.icon_paths[k][1]) + 1, Len(path))
         ELSE replace_from(self, path, k + 1)

\* the local function replace of _check_icon_path
replace(self, path) == replace_from(self, path, 1)

-----------------------------------------------------------------------------
(* xml.dom.minidom: the node table and the DOM calls the source makes *)

\* parentNode of a detached node, and the None that search_for_id returns
None == 0

\* the attributes the source reads; a missing attribute reads as ""
NoAttributes == [id |-> <<>>, name |-> <<>>, if |-> <<>>, condition |-> <<>>]

DocumentNode ==
    [nodeType |-> "DOCUMENT_NODE", tagName |-> <<>>, attributes |-> NoAttributes,
     data |-> <<>>, childNodes |-> <<>>, parentNode |-> None]

\* Element.getAttribute
getAttribute(dom, node, attr) == dom[node].attributes[attr]

IsElement(dom, node) == dom[node].nodeType = "ELEMENT_NODE"

IsText(dom, node) == dom[node].nodeType = "TEXT_NODE"

\* position of the first x in list, 0 when absent (list.index)
IndexOf(list, x) ==
    LET at == {i \in 1..Len(list) : list[i] = x}
    IN  IF at = {} THEN 0 ELSE SetMin(at)

\* list.remove(x)
ListRemove(list, x) ==
    LET p == IndexOf(list, x)
    IN  IF p = 0 THEN list
        ELSE SubSeq(list, 1, p - 1) \o SubSeq(list, p + 1, Len(list))

\* list.insert(p - 1, x) : x stands at position p afterwards
ListInsert(list, p, x) ==
    SubSeq(list, 1, p - 1) \o <<x>> \o SubSeq(list, p, Len(list))

\* Node.removeChild
removeChild(dom, parent, oldChild) ==
    [dom EXCEPT ![parent].childNodes = ListRemove(@, oldChild),
                ![oldChild].parentNode = None]

\* a node leaves its parent before it is appended or inserted elsewhere
Detached(dom, node) ==
    IF dom[node].parentNode # None
    THEN removeChild(dom, dom[node].parentNode, node)
    ELSE dom

\* Node.appendChild
appendChild(dom, parent, node) ==
    LET d == Detached(dom, node)
    IN  [d EXCEPT ![parent].childNodes = Append(@, node),
                  ![node].parentNode = parent]

\* Node.insertBefore(newChild, refChild), refChild a child of parent
insertBefore(dom, parent, newChild, refChild) ==
    LET d == Detached(dom, newChild)
        p == IndexOf(d[parent].childNodes, refChild)
    IN  [d EXCEPT ![parent].childNodes = ListInsert(@, p, newChild),
                  ![newChild].parentNode = parent]

RECURSIVE Preorder(_, _)
RECURSIVE PreorderOf(_, _, _)
\* the nodes of the subtree of node, in document order
Preorder(dom, node) == <<node>> \o PreorderOf(dom, dom[node].childNodes, 1)

PreorderOf(dom, list, k) ==
    IF k > Len(list) THEN <<>>
    ELSE Preorder(dom, list[k]) \o PreorderOf(dom, list, k + 1)

\* Node.cloneNode(True): the table with the copy added, and the copy's root
cloneNode(dom, node) ==
    LET order == Preorder(dom, node)
        base == Len(dom)
        copyOf(m) == base + IndexOf(order, m)
        copy(k) ==
            [dom[order[k]] EXCEPT
                !.childNodes = <<>> \o [j \in 1..Len(@) |-> copyOf(@[j])],
                !.parentNode = IF k = 1 THEN None ELSE copyOf(@)]
    IN  [dom |-> dom \o [k \in 1..Len(order) |-> copy(k)], node |-> base + 1]

\* the nodes of the document that toxml writes
Tree(dom) == {Preorder(dom, 1)[k] : k \in 1..Len(Preorder(dom, 1))}

\* the documentElement
documentElement(dom) == dom[1].childNodes[1]

(* The XML text handed to add_from_string, as the tree it denotes *)

Element(tagName, attributes, kids) ==
    [nodeType |-> "ELEMENT_NODE", tagName |-> tagName, attributes |-> attributes,
     data |-> <<>>, kids |-> kids]

Text(data) ==
    [nodeType |-> "TEXT_NODE", tagName |-> <<>>, attributes |-> NoAttributes,
     data |-> data, kids |-> <<>>]

RECURSIVE NodeCount(_)
RECURSIVE NodeCountOf(_, _)
\* the number of nodes text parses to
NodeCount(text) == 1 + NodeCountOf(text.kids, Len(text.kids))

\* the number of nodes the first k of kids parse to
NodeCountOf(kids, k) ==
    IF k = 0 THEN 0 ELSE NodeCountOf(kids, k - 1) + NodeCount(kids[k])

RECURSIVE ParseNode(_, _, _)
RECURSIVE ParseKids(_, _, _)
\* the nodes of text in document order, the first of them numbered node
ParseNode(text, node, parent) ==
    LET kid(k) == node + 1 + NodeCountOf(text.kids, k - 1)
    IN  << [nodeType |-> text.nodeType, tagName |-> text.tagName,
            attributes |-> text.attributes, data |-> text.data,
            childNodes |-> <<>> \o [k \in 1..Len(text.kids) |-> kid(k)],
            parentNode |-> parent] >>
        \o ParseKids(text, node, 1)

\* the nodes of the kids of text from the k-th on
ParseKids(text, node, k) ==
    IF k > Len(text.kids) THEN <<>>
    ELSE ParseNode(text.kids[k], node + 1 + NodeCountOf(text.kids, k - 1), node)
             \o ParseKids(text, node, k + 1)

\* minidom.parseString: the Document node and, under it, the nodes of the text
parseString(string) ==
    <<[DocumentNode EXCEPT !.childNodes = <<2>>]>> \o ParseNode(string, 2, 1)

RECURSIVE search_from(_, _, _, _)
RECURSIVE search_for_object(_, _, _)
RECURSIVE search_object_from(_, _, _, _)
\* search_for_id that, as its docstring says, finds OBJECT tags only
search_for_object(dom, element, id) == search_object_from(dom, element, id, 1)

search_object_from(dom, element, id, k) ==
    IF k > Len(dom[element].childNodes) THEN None
    ELSE LET child == dom[element].childNodes[k]
         IN  IF IsElement(dom, child)
             THEN IF /\ id = getAttribute(dom, child, "id")
                     /\ lower(dom[child].tagName) = <<"o","b","j","e","c","t">>
                  THEN child
                  ELSE LET r == search_for_object(dom, child, id)
                       IN  IF r # None THEN r
                           ELSE search_object_from(dom, element, id, k + 1)
             ELSE search_object_from(dom, element, id, k + 1)

\* search_for_id
search_for_id(dom, element, id) == search_from(dom, element, id, 1)

\* the loop of search_for_id from its k-th child on
search_from(dom, element, id, k) ==
    IF k > Len(dom[element].childNodes) THEN None
    ELSE LET child == dom[element].childNodes[k]
         IN  IF IsElement(dom, child)
             THEN IF id = getAttribute(dom, child, "id") THEN child
                  ELSE LET r == search_for_id(dom, child, id)
                       IN  IF r # None THEN r
                           ELSE search_from(dom, element, id, k + 1)
             ELSE search_from(dom, element, id, k + 1)

\* getElementsByTagNameCI
getElementsByTagNameCI(dom, node, tagname) ==
    SelectSeq(dom[node].childNodes,
              LAMBDA child : /\ IsElement(dom, child)
                             /\ lower(dom[child].tagName) = lower(tagname))

RECURSIVE merge_from(_, _, _, _)
\* the loop of merge_with_parent over the live element.childNodes
merge_from(dom, element, insert_before, k) ==
    IF k > Len(dom[element].childNodes) THEN dom
    ELSE LET child == dom[element].childNodes[k]
             d1 == removeChild(dom, element, child)
             d2 == appendChild(d1, d1[insert_before].parentNode, child)
             d3 == insertBefore(d2, d2[insert_before].parentNode, child, insert_before)
         IN  IF IsElement(dom, child)
             THEN merge_from(d3, element, insert_before, k + 1)
             ELSE merge_from(dom, element, insert_before, k + 1)

\* merge_with_parent
merge_with_parent(dom, element, insert_before) ==
    LET d == merge_from(dom, element, insert_before, 1)
    IN  removeChild(d, d[element].parentNode, element)

-----------------------------------------------------------------------------
(* The passes of _build.  A pass works on [dom, err]: the node table, and  *)
(* the exception that ended the pass ("" while none was raised).           *)

NoError == ""

Raise(st, exception) == [st EXCEPT !.err = exception]

RECURSIVE icon_path_from(_, _, _, _)
\* the loop of _check_icon_path over element.childNodes, from position k
icon_path_from(self, dom, element, k) ==
    IF k > Len(dom[element].childNodes) THEN dom
    ELSE LET n == dom[element].childNodes[k]
         IN  icon_path_from(self,
                            IF IsText(dom, n)
                            THEN [dom EXCEPT ![n].data = replace(self, @)]
                            ELSE dom,
                            element, k + 1)

\* UIBuilder._check_icon_path: replace() on every direct text child
_check_icon_path(self, dom, element) == icon_path_from(self, dom, element, 1)

RECURSIVE _objects_n_icons(_, _, _, _)
RECURSIVE objects_from(_, _, _, _, _)
RECURSIVE objects_child(_, _, _, _)

\* UIBuilder._objects_n_icons(node), called at nesting level depth
_objects_n_icons(self, st, node, depth) ==
    IF depth > RecursionLimit THEN Raise(st, "RecursionError")
    ELSE objects_from(self, st, node, 1, depth)

\* the loop of _objects_n_icons over the live node.childNodes, from position k
objects_from(self, st, node, k, depth) ==
    IF st.err # NoError \/ k > Len(st.dom[node].childNodes) THEN st
    ELSE objects_from(self,
                      objects_child(self, st, st.dom[node].childNodes[k], depth),
                      node, k + 1, depth)

\* the body of that loop for one child
objects_child(self, st, child, depth) ==
    LET dom == st.dom
        id == getAttribute(dom, child, "id")
        obj == search_for_id(dom, 1, id)
        cloned == cloneNode(dom, obj)
        cpy == cloned.node
        d1 == appendChild(cloned.dom, dom[child].parentNode, cpy)
        d2 == insertBefore(d1, d1[child].parentNode, cpy, child)
        d3 == removeChild(d2, d2[child].parentNode, child)
        walked == _objects_n_icons(self, st, child, depth + 1)
        name == getAttribute(dom, child, "name")
    IN  IF ~IsElement(dom, child) THEN st
        ELSE IF lower(dom[child].tagName) = <<"c","o","p","y","o","b","j","e","c","t">>
        THEN IF id = <<>> THEN st
             ELSE IF obj = None THEN Raise(st, "AttributeError")
             ELSE _objects_n_icons(self, [st EXCEPT !.dom = d3], cpy, depth + 1)
        ELSE IF /\ walked.err = NoError
                /\ lower(dom[child].tagName) = <<"p","r","o","p","e","r","t","y">>
                /\ \/ name = <<"p","i","x","b","u","f">>
                   \/ name = <<"i","c","o","n">>
             THEN [walked EXCEPT !.dom = _check_icon_path(self, @, child)]
             ELSE walked

\* _solve_if_element's test: the "condition" attribute, lower-cased and stripped
if_element_met(self, dom, element) ==
    condition_met(self, strip(lower(getAttribute(dom, element, "condition"))))

\* _find_conditions' test of a non-empty "if" attribute
if_attribute_met(self, dom, child) ==
    condition_met(self, getAttribute(dom, child, "if"))

\* UIBuilder._solve_if_element
_solve_if_element(self, dom, element) ==
    LET elses == getElementsByTagNameCI(dom, element, <<"e","l","s","e">>)
        RECURSIVE removed(_, _)
        removed(d, k) ==
            IF k > Len(elses) THEN d ELSE removed(removeChild(d, element, elses[k]), k + 1)
        RECURSIVE merged(_, _)
        merged(d, k) ==
            IF k > Len(elses) THEN d
            ELSE merged(merge_with_parent(d, elses[k], element), k + 1)
    IN  IF if_element_met(self, dom, element)
        THEN merge_with_parent(removed(dom, 1), element, element)
        ELSE LET d == merged(dom, 1)
             IN  removeChild(d, d[element].parentNode, element)

RECURSIVE _find_conditions(_, _, _, _)
RECURSIVE conditions_from(_, _, _, _, _)
RECURSIVE conditions_child(_, _, _, _, _)

\* UIBuilder._find_conditions(node), called at nesting level depth
_find_conditions(self, st, node, depth) ==
    IF depth > RecursionLimit THEN Raise(st, "RecursionError")
    ELSE conditions_from(self, st, node, 1, depth)

\* the loop of _find_conditions over the live node.childNodes, from position k
conditions_from(self, st, node, k, depth) ==
    IF st.err # NoError \/ k > Len(st.dom[node].childNodes) THEN st
    ELSE conditions_from(self,
                         conditions_child(self, st, node, st.dom[node].childNodes[k], depth),
                         node, k + 1, depth)

\* the body of that loop for one child
conditions_child(self, st, node, child, depth) ==
    LET walked == _find_conditions(self, st, child, depth + 1)
        dom == walked.dom
    IN  IF ~IsElement(st.dom, child) THEN st
        ELSE IF walked.err # NoError THEN walked
        ELSE IF lower(dom[child].tagName) = <<"i","f">>
        THEN [walked EXCEPT !.dom = _solve_if_element(self, dom, child)]
        ELSE IF getAttribute(dom, child, "if") # <<>>
        THEN IF ~if_attribute_met(self, dom, child)
             THEN [walked EXCEPT !.dom = removeChild(dom, node, child)]
             ELSE [walked EXCEPT !.dom[child].attributes["if"] = <<>>]
        ELSE walked

-----------------------------------------------------------------------------
(* Inputs *)

\* the names enable_condition is called with
Names == {<<"a">>, <<"A">>}

\* the expressions condition_met is called with directly
Alphabet == {"a", "A", "|", "&", "!", " "}
Expressions ==
    SeqsUpTo(Alphabet, MaxLen) \cup {<<"!">> \o e : e \in SeqsUpTo(Alphabet, MaxLen)}

\* the arguments of replace_icon_path
Prefixes == {<<"o">>}
Replacements == {<<"n">>, <<"o","/","o","/">>}

Attr(attr, value) == [NoAttributes EXCEPT ![attr] = value]

Whitespace == Text(<<" ">>)
Plain(tag) == Element(<<tag>>, NoAttributes, <<>>)
\* <x if="a"/>
IfAttribute == Element(<<"x">>, Attr("if", <<"a">>), <<>>)
\* <IF condition="A"><x/><y/><ELSE><z/><w/></ELSE></IF>
IfElse ==
    Element(<<"I","F">>, Attr("condition", <<"A">>),
            << Plain("x"), Plain("y"),
               Element(<<"E","L","S","E">>, NoAttributes, <<Plain("z"), Plain("w")>>) >>)
\* <if> <x/> </if>
IfBlank ==
    Element(<<"i","f">>, NoAttributes, <<Whitespace, Plain("x"), Whitespace>>)
\* <property name="pixbuf">o/i</property>
Pixbuf ==
    Element(<<"p","r","o","p","e","r","t","y">>, Attr("name", <<"p","i","x","b","u","f">>),
            <<Text(<<"o","/","i">>)>>)
\* <object id="a"><property name="pixbuf">o/i</property></object>
Object == Element(<<"o","b","j","e","c","t">>, Attr("id", <<"a">>), <<Pixbuf>>)
\* <copyobject id="..."/>
CopyObject(id) == Element(<<"c","o","p","y","o","b","j","e","c","t">>, Attr("id", id), <<>>)
\* <object id="b"><copyobject id="b"/></object>
ObjectInItself == Element(<<"o","b","j","e","c","t">>, Attr("id", <<"b">>), <<CopyObject(<<"b">>)>>)

Items ==
    { Whitespace, IfAttribute, IfElse, IfBlank, Object,
      CopyObject(<<"a">>), CopyObject(<<>>), CopyObject(<<"z">>), ObjectInItself }

\* the documents handed to add_from_string
Documents ==
    {Element(<<"i","n","t","e","r","f","a","c","e">>, NoAttributes, kids) :
        kids \in SeqsUpTo(Items, MaxChildren)}

-----------------------------------------------------------------------------
(* The state machine *)

NotCalled == [called |-> FALSE, cond |-> <<>>, result |-> FALSE]

\* UIBuilder.__init__
Init ==
    /\ conditions = {}
    /\ icon_paths = <<>>
    /\ xml = <<>>
    /\ src = <<>>
    /\ pc = "idle"
    /\ err = NoError
    /\ met = NotCalled

\* UIBuilder.enable_condition, one name per call
enable_condition(c) ==
    /\ pc = "idle"
    /\ conditions' = conditions \cup {c}
    /\ UNCHANGED <<icon_paths, xml, src, pc, err, met>>

\* UIBuilder.disable_condition, one name per call; set.remove of a name that
\* is not enabled raises KeyError and changes nothing
disable_condition(c) ==
    /\ pc = "idle"
    /\ c \in conditions
    /\ conditions' = conditions \ {c}
    /\ UNCHANGED <<icon_paths, xml, src, pc, err, met>>

\* UIBuilder.replace_icon_path
replace_icon_path(prefix, replace_with) ==
    /\ pc = "idle"
    /\ Len(icon_paths) < MaxRemaps
    /\ icon_paths' = Append(icon_paths, normalized_pair(prefix, replace_with))
    /\ UNCHANGED <<conditions, xml, src, pc, err, met>>

\* a direct call of UIBuilder.condition_met, its argument and result recorded
call_condition_met(cond) ==
    /\ pc = "idle"
    /\ met' = [called |-> TRUE, cond |-> cond, result |-> condition_met(Self, cond)]
    /\ pc' = "returned"
    /\ UNCHANGED <<conditions, icon_paths, xml, src, err>>

\* UIBuilder.add_from_string up to its call of _build
add_from_string(string) ==
    /\ pc = "idle"
    /\ xml' = parseString(string)
    /\ src' = parseString(string)
    /\ pc' = "objects"
    /\ UNCHANGED <<conditions, icon_paths, err, met>>

\* UIBuilder._build, first stage: self._objects_n_icons(self.xml.documentElement)
build_objects_n_icons ==
    /\ pc = "objects"
    /\ LET st == _objects_n_icons(Self, [dom |-> xml, err |-> NoError],
                                  documentElement(xml), 1)
       IN  /\ xml' = st.dom
           /\ err' = st.err
           /\ pc' = IF st.err = NoError THEN "conditions" ELSE "raised"
    /\ UNCHANGED <<conditions, icon_paths, src, met>>

\* UIBuilder._build, second stage: self._find_conditions(self.xml.documentElement),
\* then the document is written out and handed to Gtk.Builder
build_find_conditions ==
    /\ pc = "conditions"
    /\ LET st == _find_conditions(Self, [dom |-> xml, err |-> NoError],
                                  documentElement(xml), 1)
       IN  /\ xml' = st.dom
           /\ err' = st.err
           /\ pc' = IF st.err = NoError THEN "done" ELSE "raised"
    /\ UNCHANGED <<conditions, icon_paths, src, met>>

Configure ==
    \/ \E c \in Names : enable_condition(c)
    \/ \E c \in Names : disable_condition(c)

Next ==
    \/ Configure
    \/ \E prefix \in Prefixes, replace_with \in Replacements :
          replace_icon_path(prefix, replace_with)
    \/ \E string \in Documents : add_from_string(string)
    \/ build_objects_n_icons
    \/ build_find_conditions

Spec == Init /\ [][Next]_vars

NextCondition ==
    \/ Configure
    \/ \E cond \in Expressions : call_condition_met(cond)

SpecCondition == Init /\ [][NextCondition]_vars

-----------------------------------------------------------------------------
(* Vocabulary of the properties *)

Elements(dom) == {n \in Tree(dom) : IsElement(dom, n)}

TagIs(dom, n, tagname) == IsElement(dom, n) /\ lower(dom[n].tagName) = tagname

IsIf(dom, n) == TagIs(dom, n, <<"i","f">>)
IsElse(dom, n) == TagIs(dom, n, <<"e","l","s","e">>)
IsCopyObject(dom, n) == TagIs(dom, n, <<"c","o","p","y","o","b","j","e","c","t">>)
IsObject(dom, n) == TagIs(dom, n, <<"o","b","j","e","c","t">>)
IsIconProperty(dom, n) ==
    /\ TagIs(dom, n, <<"p","r","o","p","e","r","t","y">>)
    /\ getAttribute(dom, n, "name") \in {<<"p","i","x","b","u","f">>, <<"i","c","o","n">>}

\* the element children of node, in order
ElementChildren(dom, node) ==
    SelectSeq(dom[node].childNodes, LAMBDA c : IsElement(dom, c))

RECURSIVE Flatten(_)
Flatten(lists) == IF lists = <<>> THEN <<>> ELSE Head(lists) \o Flatten(Tail(lists))

\* the proper ancestors of n
RECURSIVE Ancestors(_, _)
Ancestors(dom, n) ==
    IF dom[n].parentNode = None THEN {}
    ELSE {dom[n].parentNode} \cup Ancestors(dom, dom[n].parentNode)

\* the whole of _build on a parsed document: both passes, or the pass that raised
Built(self, dom) ==
    LET first == _objects_n_icons(self, [dom |-> dom, err |-> NoError],
                                  documentElement(dom), 1)
    IN  IF first.err # NoError THEN first
        ELSE _find_conditions(self, first, documentElement(dom), 1)

-----------------------------------------------------------------------------
(* C1: after build no element of the document is tagged if, else or       *)
(* copyobject (in any letter case) and no element carries an "if"         *)
(* attribute.                                                             *)
C1_NoTemplatingLeft ==
    pc = "done" =>
        \A n \in Elements(xml) :
            /\ ~IsIf(xml, n)
            /\ ~IsElse(xml, n)
            /\ ~IsCopyObject(xml, n)
            /\ getAttribute(xml, n, "if") = <<>>

(* C2: resolving an IF element puts, at the IF's position in its parent   *)
(* and in their original order, all its non-ELSE element children when    *)
(* its condition is met, and all element children of its ELSE children    *)
(* when it is not; the IF and everything else in it are gone.  Stated of  *)
(* _solve_if_element on every IF element of the document as the           *)
(* Conditional-Expansion pass receives it.                                *)
ThenContent(dom, element) ==
    SelectSeq(ElementChildren(dom, element), LAMBDA c : ~IsElse(dom, c))

ElseContent(dom, element) ==
    LET elses == SelectSeq(ElementChildren(dom, element), LAMBDA c : IsElse(dom, c))
    IN  Flatten([k \in 1..Len(elses) |-> ElementChildren(dom, elses[k])])

C2_IfResolved ==
    pc = "conditions" =>
        \A element \in Elements(xml) :
            (IsIf(xml, element) /\ element # documentElement(xml)) =>
                LET parent == xml[element].parentNode
                    at == IndexOf(xml[parent].childNodes, element)
                    was == xml[parent].childNodes
                    content == IF if_element_met(Self, xml, element)
                               THEN ThenContent(xml, element)
                               ELSE ElseContent(xml, element)
                IN  _solve_if_element(Self, xml, element)[parent].childNodes
                        = SubSeq(was, 1, at - 1) \o content \o SubSeq(was, at + 1, Len(was))

(* C3: an element below the document root with a non-empty "if" attribute *)
(* is gone after the Conditional-Expansion pass when the expression is    *)
(* false, and is kept, with its subtree and without the attribute, when   *)
(* it is true.  Stated of the elements of the input that stand outside    *)
(* every IF, ELSE, copyobject and "if"-attributed element.                *)
Unconditional(dom, n) ==
    \A a \in Ancestors(dom, n) :
        /\ ~IsIf(dom, a)
        /\ ~IsElse(dom, a)
        /\ ~IsCopyObject(dom, a)
        /\ getAttribute(dom, a, "if") = <<>>

C3_IfAttribute ==
    pc = "done" =>
        \A n \in Elements(src) :
            ( /\ n # documentElement(src)
              /\ getAttribute(src, n, "if") # <<>>
              /\ ~IsIf(src, n)
              /\ ~IsCopyObject(src, n)
              /\ Unconditional(src, n) ) =>
                IF if_attribute_met(Self, src, n)
                THEN /\ n \in Tree(xml)
                     /\ getAttribute(xml, n, "if") = <<>>
                     /\ Preorder(xml, n) = Preorder(src, n)
                ELSE n \notin Tree(xml)

(* C4: condition_met returns true for the empty expression and for every  *)
(* expression of whitespace only, whatever conditions are enabled.        *)
C4_EmptyIsTrue ==
    (met.called /\ strip(met.cond) = <<>>) => met.result

(* C5: condition_met("!" + a) is the negation of condition_met(a), for    *)
(* every expression a.                                                    *)
C5_NegationOfAny ==
    (met.called /\ met.cond # <<>> /\ Head(met.cond) = "!") =>
        met.result = ~condition_met(Self, Tail(met.cond))

(* C5, amended: condition_met("!" + a) is the negation of                 *)
(* condition_met(a) for every expression a that contains neither | nor &. *)
C5_NegationOfFlat ==
    ( /\ met.called /\ met.cond # <<>> /\ Head(met.cond) = "!"
      /\ ~contains(met.cond, "|") /\ ~contains(met.cond, "&") ) =>
        met.result = ~condition_met(Self, Tail(met.cond))

\* "! a" was evaluated with a enabled
C5_Witness ==
    /\ met.called
    /\ met.cond = <<"!", " ", "a">>
    /\ <<"a">> \in conditions
    /\ ~met.result

(* C6: an expression that differs only in letter case from a name given   *)
(* to enable_condition evaluates to true, as the condition of an IF       *)
(* element and as the value of an "if" attribute.                         *)
SameButCase(e, name) == lower(e) = lower(name)

C6_CaseInsensitive ==
    pc = "conditions" =>
        \A n \in Elements(xml) :
            /\ ( /\ IsIf(xml, n)
                 /\ \E name \in conditions :
                        SameButCase(getAttribute(xml, n, "condition"), name) )
                   => if_element_met(Self, xml, n)
            /\ ( /\ ~IsIf(xml, n)
                 /\ \E name \in conditions :
                        SameButCase(getAttribute(xml, n, "if"), name) )
                   => if_attribute_met(Self, xml, n)

(* C7: a copyobject without id, or whose id no element of the document    *)
(* carries, does not abort build and touches nothing else: build ends as  *)
(* it ends on the same document with an inert childless element in the    *)
(* place of each such copyobject, and produces the same document, the     *)
(* copyobject elements left standing aside.                               *)
Dangling(dom, n) ==
    /\ IsCopyObject(dom, n)
    /\ \/ getAttribute(dom, n, "id") = <<>>
       \/ ~\E m \in Elements(dom) :
              /\ ~IsCopyObject(dom, m)
              /\ getAttribute(dom, m, "id") = getAttribute(dom, n, "id")

HasDangling(dom) == \E n \in Elements(dom) : Dangling(dom, n)

RECURSIVE InertFrom(_, _, _)
InertFrom(dom, was, n) ==
    IF n > Len(was) THEN dom
    ELSE InertFrom(IF n \in Elements(was) /\ Dangling(was, n)
                   THEN [dom EXCEPT ![n].tagName = <<"x">>, ![n].attributes["id"] = <<>>]
                   ELSE dom,
                   was, n + 1)

Inert(dom) == InertFrom(dom, dom, 1)

\* the subtree of n as a value, a copyobject element read as the inert element
RECURSIVE Canon(_, _)
Canon(dom, n) ==
    [nodeType |-> dom[n].nodeType,
     tagName |-> IF IsCopyObject(dom, n) THEN <<"x">> ELSE dom[n].tagName,
     attributes |-> IF IsCopyObject(dom, n)
                    THEN [dom[n].attributes EXCEPT !["id"] = <<>>]
                    ELSE dom[n].attributes,
     data |-> dom[n].data,
     kids |-> [k \in 1..Len(dom[n].childNodes) |-> Canon(dom, dom[n].childNodes[k])]]

C7_DanglingCopyConfined ==
    (pc \in {"done", "raised"} /\ HasDangling(src)) =>
        LET inert == Built(Self, Inert(src))
        IN  /\ err # "AttributeError"
            /\ err = inert.err
            /\ err = NoError => Canon(xml, 1) = Canon(inert.dom, 1)

\* build ended on <copyobject id="z"/> followed by an object whose icon
\* path was rewritten
C7_Witness ==
    /\ pc = "done"
    /\ \E n \in Elements(src) :
          /\ Dangling(src, n)
          /\ getAttribute(src, n, "id") # <<>>
          /\ \E t \in Tree(xml) :
                /\ t > n
                /\ t <= Len(src)
                /\ IsText(xml, t)
                /\ xml[t].data # src[t].data

(* C8: build terminates: neither pass recurses without end.               *)
C8_Terminates == err # "RecursionError"

(* C9: a copyobject with a non-empty id that an object element of the     *)
(* document carries is gone after the Object-Copy pass, a copy of that    *)
(* object stands at its position, and the object itself stays where it    *)
(* was.                                                                   *)
FirstObject(dom, id) ==
    LET order == Preorder(dom, 1)
        objects == {k \in 1..Len(order) :
                       IsObject(dom, order[k]) /\ getAttribute(dom, order[k], "id") = id}
    IN  IF objects = {} THEN None ELSE order[SetMin(objects)]

C9_CopyObjectReplaced ==
    pc = "conditions" =>
        \A c \in Elements(src) :
            \A o \in Elements(src) :
                ( /\ IsCopyObject(src, c)
                  /\ Unconditional(src, c)
                  /\ getAttribute(src, c, "id") # <<>>
                  /\ IsObject(src, o)
                  /\ getAttribute(src, o, "id") = getAttribute(src, c, "id")
                  /\ o = FirstObject(src, getAttribute(src, c, "id")) ) =>
                    LET parent == src[c].parentNode
                        at == IndexOf(src[parent].childNodes, c)
                        new == xml[parent].childNodes[at]
                    IN  /\ c \notin Tree(xml)
                        /\ new # o
                        /\ IsObject(xml, new)
                        /\ getAttribute(xml, new, "id") = getAttribute(src, c, "id")
                        /\ Len(Preorder(xml, new)) = Len(Preorder(src, o))
                        /\ o \in Tree(xml)
                        /\ xml[o].parentNode = src[o].parentNode
                        /\ Preorder(xml, o) = Preorder(src, o)

(* C10: after build every direct text child of a pixbuf or icon property  *)
(* holds replace() applied once to its input text; a text inside copied   *)
(* content holds replace() applied once to an icon text of the input.     *)
IconTexts(dom) ==
    {t \in Tree(dom) : IsText(dom, t) /\ IsIconProperty(dom, dom[t].parentNode)}

C10_IconPathsOnce ==
    pc = "done" =>
        \A t \in IconTexts(xml) :
            IF t <= Len(src)
            THEN xml[t].data = replace(Self, src[t].data)
            ELSE xml[t].data \in {replace(Self, src[s].data) : s \in IconTexts(src)}

====
